---- MODULE Spec2Model ----
(***************************************************************************)
(* A model of the CHIP-8 emulator of src/chip8.c: the machine state        *)
(* (chip8_t), ROM loading (init_chip8), input handling (get_input), the    *)
(* instruction executor (emulate_instr), the timers (update_timers) and    *)
(* the scheduler loop of main.                                             *)
(***************************************************************************)
EXTENDS Integers, Sequences, FiniteSets, TLC

VARIABLES
    chip8,                \* the chip8_t machine of main
    main_at,              \* position of main: "start", "loop", "timers", "exited"
    exit_status,          \* process exit status, -1 while the process runs
    since_timer_update,   \* SDL_GetTicks() - last_timer_update_tick at the last clock reading
    rom_name,             \* main's rom_name (argv[1]): the ROM file the user names
    user_keys,            \* the keyboard symbols the user presses and releases in this run
    startup_log,          \* which error init_chip8 logged, "none" when it logged none
    prev,                 \* history: the machine as it entered the last emulate_instr
    cycles                \* history: emulate_instr calls made so far, counted up to MaxCycles

vars == <<chip8, main_at, exit_status, since_timer_update, rom_name, user_keys,
          startup_log, prev, cycles>>

(***************************************************************************)
(* Program constants.                                                      *)
(***************************************************************************)
RAM_SIZE == 4096
entry_point == 512
STACK_SIZE == 12
NUM_KEYS == 16
NUM_REGS == 16
window_width == 64
window_height == 32
timer_update_interval_ms == 16
EXIT_FAILURE == 1
EXIT_SUCCESS == 0

QUIT == "QUIT"
RUNNING == "RUNNING"
PAUSED == "PAUSED"

(***************************************************************************)
(* Bounds of the model.                                                    *)
(***************************************************************************)
\* the history counter `cycles` counts up to MaxCycles and stays there
MaxCycles == 3
\* at most MaxEvents events are pending when get_input polls
MaxEvents == 1

(***************************************************************************)
(* Fixed-width arithmetic.                                                 *)
(***************************************************************************)
U8(n) == n % 256
U16(n) == n % 65536

RECURSIVE BitOp(_, _, _, _)
\* bitwise combination of the low `w` bits of a and b; f is "and", "or" or "xor"
BitOp(f, a, b, w) ==
    IF w = 0 THEN 0
    ELSE LET x == a % 2
             y == b % 2
             bit == CASE f = "and" -> IF x = 1 /\ y = 1 THEN 1 ELSE 0
                      [] f = "or"  -> IF x = 1 \/ y = 1 THEN 1 ELSE 0
                      [] OTHER     -> IF x # y THEN 1 ELSE 0
         IN bit + 2 * BitOp(f, a \div 2, b \div 2, w - 1)

And8(a, b) == BitOp("and", a, b, 8)
Or8(a, b) == BitOp("or", a, b, 8)
Xor8(a, b) == BitOp("xor", a, b, 8)

\* 2^n for small n
RECURSIVE Pow2(_)
Pow2(n) == IF n = 0 THEN 1 ELSE 2 * Pow2(n - 1)

(***************************************************************************)
(* The font table of init_chip8.                                           *)
(***************************************************************************)
font ==
    << 240, 144, 144, 144, 240,
        32,  96,  32,  32, 112,
       240,  16, 240, 128, 240,
       240,  16, 240,  16, 240,
       144, 144, 240,  16,  16,
       240, 128, 240,  16, 240,
       240, 128, 240, 144, 240,
       240,  16,  32,  64,  64,
       240, 144, 240, 144, 240,
       240, 144, 240,  16, 240,
       240, 144, 240, 144, 144,
       224, 144, 224, 144, 224,
       240, 128, 128, 128, 240,
       224, 144, 144, 144, 224,
       240, 128, 240, 128, 240,
       240, 128, 240, 128, 128 >>

(***************************************************************************)
(* Representation of the two big arrays of chip8_t.                        *)
(*   ram[4096]: the function from the addresses that hold a non-zero byte  *)
(*     to that byte; every other address of 0 .. 4095 holds 0.             *)
(*   display[64*32]: the set of the indices whose cell is true.            *)
(* Both are canonical: equal arrays have equal representations.            *)
(***************************************************************************)
\* ram[a]; an address outside the array has no value
RamRead(ram, a) ==
    IF a \in DOMAIN ram THEN ram[a]
    ELSE CASE a \in 0 .. RAM_SIZE - 1 -> 0

\* the array after bytes[1 .. Len(bytes)] are stored at base, base + 1, ...
RamCopy(ram, base, bytes) ==
    LET last == base + Len(bytes) - 1
        new(a) == IF a >= base /\ a <= last THEN bytes[a - base + 1] ELSE ram[a]
        dom == {a \in DOMAIN ram \cup (base .. last) : new(a) # 0}
    IN CASE Len(bytes) = 0 \/ (base >= 0 /\ last < RAM_SIZE) -> [a \in dom |-> new(a)]

\* the array after ram[a] = v
RamWrite(ram, a, v) == RamCopy(ram, a, <<v>>)

\* display[p]
Pixel(display, p) == p \in display

(***************************************************************************)
(* Instruction decoding (the head of emulate_instr).                       *)
(***************************************************************************)
Decode(opcode) ==
    [ opcode |-> opcode,
      NNN    |-> opcode % 4096,
      NN     |-> opcode % 256,
      N      |-> opcode % 16,
      X      |-> (opcode \div 256) % 16,
      Y      |-> (opcode \div 16) % 16 ]

\* the big-endian word at ram[PC], ram[PC + 1]
Fetch(c) == RamRead(c.ram, c.PC) * 256 + RamRead(c.ram, c.PC + 1)

\* the chip8_t after memset(chip8, 0, sizeof(chip8_t)); main's chip8 = {0}
ZeroChip8 ==
    [ state         |-> QUIT,
      V             |-> [i \in 0 .. NUM_REGS - 1 |-> 0],
      I             |-> 0,
      PC            |-> 0,
      stack         |-> [i \in 0 .. STACK_SIZE - 1 |-> 0],
      stack_pointer |-> 0,
      keypad        |-> [i \in 0 .. NUM_KEYS - 1 |-> FALSE],
      ram           |-> <<>>,
      display       |-> {},
      delay_timer   |-> 0,
      sound_timer   |-> 0,
      instruction   |-> Decode(0),
      rom_name      |-> <<>> ]

(***************************************************************************)
(* get_input: the pending SDL events, handled in order.                    *)
(***************************************************************************)
\* the CHIP-8 key a keyboard symbol is mapped to, -1 for an unmapped symbol
KeyOf(sym) ==
    CASE sym = "SDLK_1" -> 1  [] sym = "SDLK_2" -> 2
      [] sym = "SDLK_3" -> 3  [] sym = "SDLK_4" -> 12
      [] sym = "SDLK_q" -> 4  [] sym = "SDLK_w" -> 5
      [] sym = "SDLK_e" -> 6  [] sym = "SDLK_r" -> 13
      [] sym = "SDLK_a" -> 7  [] sym = "SDLK_s" -> 8
      [] sym = "SDLK_d" -> 9  [] sym = "SDLK_f" -> 14
      [] sym = "SDLK_z" -> 10 [] sym = "SDLK_x" -> 0
      [] sym = "SDLK_c" -> 11 [] sym = "SDLK_v" -> 15
      [] OTHER -> -1

\* faulty variant: the space bar pauses but does not resume
KeyDown_NoResume(c, sym) ==
    CASE sym = "SDLK_SPACE" ->
            IF c.state = RUNNING THEN [c EXCEPT !.state = PAUSED] ELSE c
      [] KeyOf(sym) >= 0 -> [c EXCEPT !.keypad[KeyOf(sym)] = TRUE]
      [] OTHER -> c

\* one SDL_KEYDOWN event
KeyDown(c, sym) ==
    CASE sym = "SDLK_SPACE" ->
            IF c.state = RUNNING THEN [c EXCEPT !.state = PAUSED]
            ELSE IF c.state = PAUSED THEN [c EXCEPT !.state = RUNNING]
            ELSE c
      [] KeyOf(sym) >= 0 -> [c EXCEPT !.keypad[KeyOf(sym)] = TRUE]
      [] OTHER -> c

\* one SDL_KEYUP event
KeyUp(c, sym) ==
    IF KeyOf(sym) >= 0 THEN [c EXCEPT !.keypad[KeyOf(sym)] = FALSE] ELSE c

\* faulty variant: the escape key does not quit
IsQuitEvent_NoEscape(e) == e.type = "SDL_QUIT"

\* whether the event makes get_input set QUIT and return at once
IsQuitEvent(e) ==
    \/ e.type = "SDL_QUIT"
    \/ e.type = "SDL_KEYDOWN" /\ e.sym = "SDLK_ESCAPE"

RECURSIVE get_input(_, _)
get_input(c, events) ==
    IF events = <<>> THEN c
    ELSE LET e == Head(events) IN
         IF IsQuitEvent(e) THEN [c EXCEPT !.state = QUIT]
         ELSE IF e.type = "SDL_KEYDOWN" THEN get_input(KeyDown(c, e.sym), Tail(events))
         ELSE IF e.type = "SDL_KEYUP" THEN get_input(KeyUp(c, e.sym), Tail(events))
         ELSE get_input(c, Tail(events))

(***************************************************************************)
(* emulate_instr.                                                          *)
(***************************************************************************)
\* ExecCls that clears window_width cells only: the first row
ExecCls_FirstRow(c) == [c EXCEPT !.display = c.display \ (0 .. window_width - 1)]

\* 00E0: memset(display, false, sizeof(display))
ExecCls(c) == [c EXCEPT !.display = {}]

\* ExecRet that returns to the oldest return address instead of the newest
ExecRet_Fifo(c) ==
    IF c.stack_pointer > 0
    THEN [c EXCEPT !.stack_pointer = c.stack_pointer - 1,
                   !.PC = c.stack[0],
                   !.stack = [i \in 0 .. STACK_SIZE - 1 |->
                                 IF i < STACK_SIZE - 1 THEN c.stack[i + 1] ELSE 0]]
    ELSE [c EXCEPT !.state = PAUSED]

\* ExecRet without the test for an empty stack
ExecRet_NoCheck(c) ==
    [c EXCEPT !.stack_pointer = c.stack_pointer - 1,
              !.PC = c.stack[(c.stack_pointer - 1) % STACK_SIZE]]

\* 00EE
ExecRet(c) ==
    IF c.stack_pointer > 0
    THEN [c EXCEPT !.stack_pointer = c.stack_pointer - 1,
                   !.PC = c.stack[c.stack_pointer - 1]]
    ELSE [c EXCEPT !.state = PAUSED]

\* the switch on NN of the 0 family: 00E0, 00EE, and 0NNN as a no-op
Exec0(c) ==
    CASE c.instruction.NN = 224 -> ExecCls(c)
      [] c.instruction.NN = 238 -> ExecRet(c)
      [] OTHER -> c

\* ExecJump relative to the advanced PC instead of absolute
ExecJump_Relative(c) == [c EXCEPT !.PC = U16(c.PC + c.instruction.NNN)]

\* 1NNN
ExecJump(c) == [c EXCEPT !.PC = c.instruction.NNN]

\* 6XNN
ExecLoadImm(c) == [c EXCEPT !.V[c.instruction.X] = c.instruction.NN]

\* ExecAddImm that stores the immediate instead of adding it
ExecAddImm_Store(c) == [c EXCEPT !.V[c.instruction.X] = c.instruction.NN]

\* ExecAddImm that sets VF to the carry, as 8XY4 does
ExecAddImm_Carry(c) ==
    LET X == c.instruction.X
        sum == c.V[X] + c.instruction.NN
    IN [c EXCEPT !.V = [[c.V EXCEPT ![X] = U8(sum)]
                           EXCEPT ![15] = IF sum > 255 THEN 1 ELSE 0]]

\* 7XNN
ExecAddImm(c) ==
    [c EXCEPT !.V[c.instruction.X] = U8(c.V[c.instruction.X] + c.instruction.NN)]

\* ExecCall with the test for a full stack off by one: stack_pointer <= &stack[12]
ExecCall_OffByOne(c) ==
    IF c.stack_pointer <= STACK_SIZE
    THEN [c EXCEPT !.stack = [i \in 0 .. STACK_SIZE - 1 |->
                                IF i = c.stack_pointer THEN c.PC ELSE c.stack[i]],
                   !.stack_pointer = c.stack_pointer + 1,
                   !.PC = c.instruction.NNN]
    ELSE [c EXCEPT !.state = PAUSED]

\* 2NNN
ExecCall(c) ==
    IF c.stack_pointer < STACK_SIZE
    THEN [c EXCEPT !.stack[c.stack_pointer] = c.PC,
                   !.stack_pointer = c.stack_pointer + 1,
                   !.PC = c.instruction.NNN]
    ELSE [c EXCEPT !.state = PAUSED]

\* SkipIf that skips one byte instead of one instruction
SkipIf_OneByte(c, cond) == IF cond THEN [c EXCEPT !.PC = U16(c.PC + 1)] ELSE c

\* SkipIf that skips when the condition does not hold
SkipIf_Negated(c, cond) == IF cond THEN c ELSE [c EXCEPT !.PC = U16(c.PC + 2)]

\* PC += 2 when the condition of a skip instruction holds
SkipIf(c, cond) == IF cond THEN [c EXCEPT !.PC = U16(c.PC + 2)] ELSE c

\* ExecAdd with the two writes in the other order: the flag written last
ExecAdd_FlagLast(c, X, Y) ==
    LET sum == c.V[X] + c.V[Y]
        c1 == [c EXCEPT !.V[X] = U8(sum)]
    IN [c1 EXCEPT !.V[15] = IF sum > 255 THEN 1 ELSE 0]

\* 8XY4: the flag is written first, the destination second
ExecAdd(c, X, Y) ==
    LET sum == c.V[X] + c.V[Y]
        c1 == [c EXCEPT !.V[15] = IF sum > 255 THEN 1 ELSE 0]
    IN [c1 EXCEPT !.V[X] = U8(sum)]

\* 8XY5: the flag is written first, then V[X] -= V[Y] on the updated registers
ExecSub(c, X, Y) ==
    LET c1 == [c EXCEPT !.V[15] = IF c.V[X] >= c.V[Y] THEN 1 ELSE 0]
    IN [c1 EXCEPT !.V[X] = U8(c1.V[X] - c1.V[Y])]

\* 8XY7: the flag is written first, then V[X] = V[Y] - V[X] on the updated registers
ExecSubn(c, X, Y) ==
    LET c1 == [c EXCEPT !.V[15] = IF c.V[Y] >= c.V[X] THEN 1 ELSE 0]
    IN [c1 EXCEPT !.V[X] = U8(c1.V[Y] - c1.V[X])]

\* 8XY6: the flag is written first, then V[X] >>= 1 on the updated registers
ExecShr(c, X) ==
    LET c1 == [c EXCEPT !.V[15] = c.V[X] % 2]
    IN [c1 EXCEPT !.V[X] = c1.V[X] \div 2]

\* 8XYE: the flag is written first, then V[X] <<= 1 on the updated registers
ExecShl(c, X) ==
    LET c1 == [c EXCEPT !.V[15] = (c.V[X] \div 128) % 2]
    IN [c1 EXCEPT !.V[X] = U8(c1.V[X] * 2)]

\* 8XYN
Exec8(c) ==
    LET X == c.instruction.X
        Y == c.instruction.Y
        N == c.instruction.N
    IN CASE N = 0 -> [c EXCEPT !.V[X] = c.V[Y]]
         [] N = 1 -> [c EXCEPT !.V[X] = Or8(c.V[X], c.V[Y])]
         [] N = 2 -> [c EXCEPT !.V[X] = And8(c.V[X], c.V[Y])]
         [] N = 3 -> [c EXCEPT !.V[X] = Xor8(c.V[X], c.V[Y])]
         [] N = 4 -> ExecAdd(c, X, Y)
         [] N = 5 -> ExecSub(c, X, Y)
         [] N = 6 -> ExecShr(c, X)
         [] N = 7 -> ExecSubn(c, X, Y)
         [] N = 14 -> ExecShl(c, X)
         [] OTHER -> c

\* whether bit col_bit (0 is the most significant) of the sprite byte is set
SpriteBit(sprite_byte, col_bit) == (sprite_byte \div Pow2(7 - col_bit)) % 2 = 1

\* DrawBit with the pixel set instead of toggled (display[screen_idx] |= 1)
DrawBit_Or(c, sprite_byte, x_coord, y_coord, row, col_bit) ==
    LET current_x == U8((x_coord + col_bit) % window_width)
        current_y == U8((y_coord + row) % window_height)
        screen_idx == current_y * window_width + current_x
    IN IF SpriteBit(sprite_byte, col_bit) /\ screen_idx < window_width * window_height
       THEN IF Pixel(c.display, screen_idx)
            THEN [c EXCEPT !.V[15] = 1]
            ELSE [c EXCEPT !.display = c.display \cup {screen_idx}]
       ELSE c

\* DrawBit that clips at the right and bottom edges instead of wrapping
DrawBit_Clip(c, sprite_byte, x_coord, y_coord, row, col_bit) ==
    LET current_x == (x_coord % window_width) + col_bit
        current_y == (y_coord % window_height) + row
        screen_idx == current_y * window_width + current_x
    IN IF /\ SpriteBit(sprite_byte, col_bit)
          /\ current_x < window_width /\ current_y < window_height
       THEN IF Pixel(c.display, screen_idx)
            THEN [c EXCEPT !.V[15] = 1, !.display = c.display \ {screen_idx}]
            ELSE [c EXCEPT !.display = c.display \cup {screen_idx}]
       ELSE c

\* the body of the inner loop of DXYN for one bit of one sprite row
DrawBit(c, sprite_byte, x_coord, y_coord, row, col_bit) ==
    LET current_x == U8((x_coord + col_bit) % window_width)
        current_y == U8((y_coord + row) % window_height)
        screen_idx == current_y * window_width + current_x
    IN IF SpriteBit(sprite_byte, col_bit) /\ screen_idx < window_width * window_height
       THEN IF Pixel(c.display, screen_idx)
            THEN [c EXCEPT !.V[15] = 1, !.display = c.display \ {screen_idx}]
            ELSE [c EXCEPT !.display = c.display \cup {screen_idx}]
       ELSE c

RECURSIVE DrawCols(_, _, _, _, _, _)
\* the inner loop of DXYN from bit col_bit on
DrawCols(c, sprite_byte, x_coord, y_coord, row, col_bit) ==
    IF col_bit >= 8 THEN c
    ELSE DrawCols(DrawBit(c, sprite_byte, x_coord, y_coord, row, col_bit),
                  sprite_byte, x_coord, y_coord, row, col_bit + 1)

\* the test of DXYN that the sprite row is read inside the RAM
RowInRange(c, row) == ~(c.I + row >= RAM_SIZE)

RECURSIVE DrawRows(_, _, _, _, _)
\* the outer loop of DXYN from row `row` on; stops at the first row outside the RAM
DrawRows(c, x_coord, y_coord, height, row) ==
    IF row >= height THEN c
    ELSE IF ~RowInRange(c, row) THEN c
    ELSE DrawRows(DrawCols(c, RamRead(c.ram, c.I + row), x_coord, y_coord, row, 0),
                  x_coord, y_coord, height, row + 1)

\* ExecDraw that draws nothing when some row of the sprite lies outside the RAM
ExecDraw_AllOrNothing(c) ==
    LET x_coord == c.V[c.instruction.X]
        y_coord == c.V[c.instruction.Y]
        height == c.instruction.N
    IN IF c.I + height > RAM_SIZE
       THEN [c EXCEPT !.V[15] = 0]
       ELSE DrawRows([c EXCEPT !.V[15] = 0], x_coord, y_coord, height, 0)

\* ExecDraw without the reset of VF
ExecDraw_NoReset(c) ==
    LET x_coord == c.V[c.instruction.X]
        y_coord == c.V[c.instruction.Y]
        height == c.instruction.N
    IN DrawRows(c, x_coord, y_coord, height, 0)

\* DXYN
ExecDraw(c) ==
    LET x_coord == c.V[c.instruction.X]
        y_coord == c.V[c.instruction.Y]
        height == c.instruction.N
    IN DrawRows([c EXCEPT !.V[15] = 0], x_coord, y_coord, height, 0)

\* EXNN
ExecE(c) ==
    LET X == c.instruction.X
        NN == c.instruction.NN
    IN CASE NN = 158 -> SkipIf(c, c.keypad[c.V[X] % 16])
         [] NN = 161 -> SkipIf(c, ~c.keypad[c.V[X] % 16])
         [] OTHER -> c

\* the keys that are down
Pressed(c) == {k \in 0 .. NUM_KEYS - 1 : c.keypad[k]}

\* the lowest element of a non-empty set of numbers
Lowest(S) == CHOOSE k \in S : \A j \in S : k <= j

\* ExecWaitKey without the roll-back of PC when no key is down
ExecWaitKey_NoRollback(c) ==
    IF Pressed(c) # {}
    THEN [c EXCEPT !.V[c.instruction.X] = Lowest(Pressed(c))]
    ELSE c

\* ExecWaitKey with the scan going on after the first key down: the last one wins
ExecWaitKey_LastKey(c) ==
    IF Pressed(c) # {}
    THEN [c EXCEPT !.V[c.instruction.X] =
                        CHOOSE k \in Pressed(c) : \A j \in Pressed(c) : k >= j]
    ELSE [c EXCEPT !.PC = U16(c.PC - 2)]

\* ExecWaitKey that clears the flag of the key it has read
ExecWaitKey_Consume(c) ==
    IF Pressed(c) # {}
    THEN [c EXCEPT !.V[c.instruction.X] = Lowest(Pressed(c)),
                   !.keypad[Lowest(Pressed(c))] = FALSE]
    ELSE [c EXCEPT !.PC = U16(c.PC - 2)]

\* FX0A: the first key down in ascending order, or PC rolled back
ExecWaitKey(c) ==
    IF Pressed(c) # {}
    THEN [c EXCEPT !.V[c.instruction.X] = Lowest(Pressed(c))]
    ELSE [c EXCEPT !.PC = U16(c.PC - 2)]

\* the test of FX33 with the last address left out: I < sizeof(ram)
BcdInRange_FirstOnly(c) == c.I < RAM_SIZE

\* the test of FX33 that its three bytes lie inside the RAM
BcdInRange(c) == c.I + 2 < RAM_SIZE

\* ExecBcd that stores the digits in the reverse order: ones first
ExecBcd_Reversed(c) ==
    LET val == c.V[c.instruction.X] IN
    IF BcdInRange(c)
    THEN [c EXCEPT !.ram = RamCopy(c.ram, c.I,
                                   <<val % 10, (val \div 10) % 10, val \div 100>>)]
    ELSE c

\* FX33
ExecBcd(c) ==
    LET val == c.V[c.instruction.X] IN
    IF BcdInRange(c)
    THEN [c EXCEPT !.ram = RamCopy(c.ram, c.I,
                                   <<val \div 100, (val \div 10) % 10, val % 10>>)]
    ELSE c

\* the test of FX55 that the bytes of V0 .. VX lie inside the RAM
DumpInRange(c) == c.I + c.instruction.X < RAM_SIZE

\* FX55
ExecDump(c) ==
    LET X == c.instruction.X IN
    IF DumpInRange(c)
    THEN [c EXCEPT !.ram = RamCopy(c.ram, c.I, [i \in 1 .. X + 1 |-> c.V[i - 1]]),
                   !.I = U16(c.I + X + 1)]
    ELSE c

\* the test of FX65 that the bytes of V0 .. VX lie inside the RAM
LoadInRange(c) == c.I + c.instruction.X < RAM_SIZE

\* ExecLoad that stops one register early: V0 .. V[X - 1]
ExecLoad_Exclusive(c) ==
    LET X == c.instruction.X IN
    IF LoadInRange(c)
    THEN [c EXCEPT !.V = [i \in 0 .. NUM_REGS - 1 |->
                            IF i < X THEN RamRead(c.ram, c.I + i) ELSE c.V[i]],
                   !.I = U16(c.I + X + 1)]
    ELSE c

\* FX65
ExecLoad(c) ==
    LET X == c.instruction.X IN
    IF LoadInRange(c)
    THEN [c EXCEPT !.V = [i \in 0 .. NUM_REGS - 1 |->
                            IF i <= X THEN RamRead(c.ram, c.I + i) ELSE c.V[i]],
                   !.I = U16(c.I + X + 1)]
    ELSE c

\* FXNN
ExecF(c) ==
    LET X == c.instruction.X
        NN == c.instruction.NN
    IN CASE NN = 7 -> [c EXCEPT !.V[X] = c.delay_timer]
         [] NN = 10 -> ExecWaitKey(c)
         [] NN = 21 -> [c EXCEPT !.delay_timer = c.V[X]]
         [] NN = 24 -> [c EXCEPT !.sound_timer = c.V[X]]
         [] NN = 30 -> [c EXCEPT !.I = U16(c.I + c.V[X])]
         [] NN = 41 -> [c EXCEPT !.I = (c.V[X] % 16) * 5]
         [] NN = 51 -> ExecBcd(c)
         [] NN = 85 -> ExecDump(c)
         [] NN = 101 -> ExecLoad(c)
         [] OTHER -> c

\* the switch of emulate_instr on the decoded instruction; random is rand() % 256
Execute(c, random) ==
    LET in == c.instruction
        hi == in.opcode \div 4096
        X == in.X
        Y == in.Y
    IN CASE hi = 0 -> Exec0(c)
         [] hi = 1 -> ExecJump(c)
         [] hi = 2 -> ExecCall(c)
         [] hi = 3 -> SkipIf(c, c.V[X] = in.NN)
         [] hi = 4 -> SkipIf(c, c.V[X] # in.NN)
         [] hi = 5 -> IF in.N = 0 THEN SkipIf(c, c.V[X] = c.V[Y]) ELSE c
         [] hi = 6 -> ExecLoadImm(c)
         [] hi = 7 -> ExecAddImm(c)
         [] hi = 8 -> Exec8(c)
         [] hi = 9 -> IF in.N = 0 THEN SkipIf(c, c.V[X] # c.V[Y]) ELSE c
         [] hi = 10 -> [c EXCEPT !.I = in.NNN]
         [] hi = 11 -> [c EXCEPT !.PC = in.NNN + c.V[0]]
         [] hi = 12 -> [c EXCEPT !.V[X] = And8(random, in.NN)]
         [] hi = 13 -> ExecDraw(c)
         [] hi = 14 -> ExecE(c)
         [] OTHER -> ExecF(c)

\* fetch, advance PC, decode, execute
emulate_instr(c, random) ==
    Execute([c EXCEPT !.instruction = Decode(Fetch(c)),
                      !.PC = U16(c.PC + 2)],
            random)

(***************************************************************************)
(* update_timers.                                                          *)
(***************************************************************************)
\* faulty variant: decrements without the test for zero, in 8 bits
update_timers_Wrap(c) ==
    [c EXCEPT !.delay_timer = (c.delay_timer + 255) % 256,
              !.sound_timer = (c.sound_timer + 255) % 256]

\* faulty variant: only the sound timer is decremented
update_timers_SoundOnly(c) ==
    [c EXCEPT !.sound_timer = IF c.sound_timer > 0 THEN c.sound_timer - 1 ELSE 0]

update_timers(c) ==
    [c EXCEPT !.delay_timer = IF c.delay_timer > 0 THEN c.delay_timer - 1 ELSE 0,
              !.sound_timer = IF c.sound_timer > 0 THEN c.sound_timer - 1 ELSE 0]

(***************************************************************************)
(* ROM files.  A file name says what the file holds:                       *)
(*   <<"prog", words>>       the big-endian bytes of the 16-bit words      *)
(*   <<"pad", words, len>>   the same, cut or zero-padded to len bytes     *)
(*   <<"fill", words, len, b>>  the same, cut or padded with byte b        *)
(*   <<"missing">>           no such file                                  *)
(***************************************************************************)
RECURSIVE Program(_)
Program(words) ==
    IF words = <<>> THEN <<>>
    ELSE <<Head(words) \div 256, Head(words) % 256>> \o Program(Tail(words))

FileExists(name) == name[1] # "missing"

RomFile(name) ==
    CASE name[1] = "prog" -> Program(name[2])
      [] name[1] = "pad" ->
            LET p == Program(name[2])
            IN [i \in 1 .. name[3] |-> IF i <= Len(p) THEN p[i] ELSE 0]
      [] name[1] = "fill" ->
            LET p == Program(name[2])
            IN [i \in 1 .. name[3] |-> IF i <= Len(p) THEN p[i] ELSE name[4]]
      [] OTHER -> <<>>

(***************************************************************************)
(* init_chip8: the result and the machine it leaves.                       *)
(***************************************************************************)
\* init_chip8 with the size test off by one: rom_size >= max_rom_size
init_chip8_SizeOffByOne(name) ==
    LET withFont == [ZeroChip8 EXCEPT !.ram = RamCopy(ZeroChip8.ram, 0, font)]
        rom == RomFile(name)
        rom_size == Len(rom)
        max_rom_size == RAM_SIZE - entry_point
    IN IF ~FileExists(name)
       THEN [ok |-> FALSE, log |-> "open_failed", chip8 |-> withFont]
       ELSE IF rom_size >= max_rom_size
       THEN [ok |-> FALSE, log |-> "too_large", chip8 |-> withFont]
       ELSE IF rom_size <= 0
       THEN [ok |-> FALSE, log |-> "empty", chip8 |-> withFont]
       ELSE [ok |-> TRUE, log |-> "none",
             chip8 |-> [withFont EXCEPT
                 !.ram = RamCopy(withFont.ram, entry_point, rom),
                 !.state = RUNNING,
                 !.PC = entry_point,
                 !.rom_name = name,
                 !.stack_pointer = 0]]

\* init_chip8 that copies the font without its last glyph
init_chip8_ShortFont(name) ==
    LET withFont == [ZeroChip8 EXCEPT
                        !.ram = RamCopy(ZeroChip8.ram, 0, SubSeq(font, 1, 75))]
        rom == RomFile(name)
        rom_size == Len(rom)
        max_rom_size == RAM_SIZE - entry_point
    IN IF ~FileExists(name)
       THEN [ok |-> FALSE, log |-> "open_failed", chip8 |-> withFont]
       ELSE IF rom_size > max_rom_size
       THEN [ok |-> FALSE, log |-> "too_large", chip8 |-> withFont]
       ELSE IF rom_size <= 0
       THEN [ok |-> FALSE, log |-> "empty", chip8 |-> withFont]
       ELSE [ok |-> TRUE, log |-> "none",
             chip8 |-> [withFont EXCEPT
                 !.ram = RamCopy(withFont.ram, entry_point, rom),
                 !.state = RUNNING,
                 !.PC = entry_point,
                 !.rom_name = name,
                 !.stack_pointer = 0]]

init_chip8(name) ==
    LET withFont == [ZeroChip8 EXCEPT !.ram = RamCopy(ZeroChip8.ram, 0, font)]
        rom == RomFile(name)
        rom_size == Len(rom)
        max_rom_size == RAM_SIZE - entry_point
    IN IF ~FileExists(name)
       THEN [ok |-> FALSE, log |-> "open_failed", chip8 |-> withFont]
       ELSE IF rom_size > max_rom_size
       THEN [ok |-> FALSE, log |-> "too_large", chip8 |-> withFont]
       ELSE IF rom_size <= 0
       THEN [ok |-> FALSE, log |-> "empty", chip8 |-> withFont]
       ELSE [ok |-> TRUE, log |-> "none",
             chip8 |-> [withFont EXCEPT
                 !.ram = RamCopy(withFont.ram, entry_point, rom),
                 !.state = RUNNING,
                 !.PC = entry_point,
                 !.rom_name = name,
                 !.stack_pointer = 0]]

(***************************************************************************)
(* The environment: input events, the random source, elapsed time.         *)
(***************************************************************************)
\* keyboard symbols of mapped keys: CHIP-8 keys 0, 2 and F
KeySyms == {"SDLK_x", "SDLK_2", "SDLK_v"}

\* the events a user who plays the keys `keys` can cause
InputEvents(keys) ==
    {[type |-> "SDL_QUIT", sym |-> ""],
     [type |-> "SDL_KEYDOWN", sym |-> "SDLK_ESCAPE"],
     [type |-> "SDL_KEYDOWN", sym |-> "SDLK_SPACE"],
     [type |-> "SDL_KEYUP", sym |-> "SDLK_SPACE"],
     [type |-> "SDL_MOUSEMOTION", sym |-> ""]}
    \cup {[type |-> t, sym |-> k] : t \in {"SDL_KEYDOWN", "SDL_KEYUP"}, k \in keys}

RECURSIVE SeqsUpTo(_, _)
\* the sequences over S of length at most n
SeqsUpTo(S, n) ==
    IF n = 0 THEN {<<>>}
    ELSE LET shorter == SeqsUpTo(S, n - 1)
         IN shorter \cup {Append(q, e) : q \in shorter, e \in S}

\* what SDL_PollEvent may deliver to one call of get_input
EventBatches == SeqsUpTo(InputEvents(user_keys), MaxEvents)

\* values of rand() % 256
RandomBytes == {0, 85, 255}

\* milliseconds between two clock readings of the loop: half a timer interval,
\* a whole one, and an iteration that spans two
IterationMs == {8, 16, 32}

(***************************************************************************)
(* main.                                                                   *)
(***************************************************************************)
InitWith(roms, keys) ==
    /\ rom_name \in roms
    /\ user_keys = keys
    /\ chip8 = ZeroChip8
    /\ main_at = "start"
    /\ exit_status = -1
    /\ since_timer_update = 0
    /\ startup_log = "none"
    /\ prev = ZeroChip8
    /\ cycles = 0

\* init_chip8 and the exit of main when it fails
Startup ==
    /\ main_at = "start"
    /\ LET r == init_chip8(rom_name)
       IN /\ chip8' = r.chip8
          /\ main_at' = IF r.ok THEN "loop" ELSE "exited"
          /\ exit_status' = IF r.ok THEN exit_status ELSE EXIT_FAILURE
          /\ startup_log' = r.log
    /\ since_timer_update' = 0
    /\ UNCHANGED <<rom_name, user_keys, prev, cycles>>

\* PausedIteration without the reset of last_timer_update_tick: the 100 ms of
\* the delay count towards the next timer check
PausedIteration_NoReset ==
    /\ main_at = "loop"
    /\ chip8.state # QUIT
    /\ \E events \in EventBatches :
         LET c1 == get_input(chip8, events)
         IN /\ c1.state = PAUSED
            /\ chip8' = c1
    /\ since_timer_update' = since_timer_update + 100
    /\ UNCHANGED <<main_at, exit_status, rom_name, user_keys, startup_log, prev, cycles>>

\* a loop iteration that finds the machine PAUSED after get_input
PausedIteration ==
    /\ main_at = "loop"
    /\ chip8.state # QUIT
    /\ \E events \in EventBatches :
         LET c1 == get_input(chip8, events)
         IN /\ c1.state = PAUSED
            /\ chip8' = c1
    /\ since_timer_update' = 0
    /\ UNCHANGED <<main_at, exit_status, rom_name, user_keys, startup_log, prev, cycles>>

\* the loop ends: QUIT at the loop test or after get_input; cleanup, return 0
QuitIteration ==
    /\ main_at = "loop"
    /\ \E events \in EventBatches :
         LET c1 == IF chip8.state = QUIT THEN chip8 ELSE get_input(chip8, events)
         IN /\ c1.state = QUIT
            /\ chip8' = c1
    /\ main_at' = "exited"
    /\ exit_status' = EXIT_SUCCESS
    /\ UNCHANGED <<since_timer_update, rom_name, user_keys, startup_log, prev, cycles>>

\* PcInRange that tests the first byte of the opcode only
PcInRange_FirstByte(c) == ~(c.PC >= RAM_SIZE)

\* the test of main that the two bytes of the opcode lie inside the RAM
PcInRange(c) == ~(c.PC >= RAM_SIZE \/ c.PC + 1 >= RAM_SIZE)

\* a loop iteration that finds the machine RUNNING after get_input: the bounds
\* check on PC, then emulate_instr
EmulateCycle ==
    /\ main_at = "loop"
    /\ chip8.state # QUIT
    /\ \E events \in EventBatches :
         LET c1 == get_input(chip8, events)
         IN /\ c1.state = RUNNING
            /\ IF ~PcInRange(c1)
               THEN /\ chip8' = [c1 EXCEPT !.state = PAUSED]
                    /\ UNCHANGED <<main_at, prev, cycles>>
               ELSE /\ \E random \in IF Fetch(c1) \div 4096 = 12 THEN RandomBytes ELSE {0} :
                         chip8' = emulate_instr(c1, random)
                    /\ prev' = c1
                    /\ cycles' = IF cycles < MaxCycles THEN cycles + 1 ELSE cycles
                    /\ main_at' = "timers"
    /\ UNCHANGED <<exit_status, since_timer_update, rom_name, user_keys, startup_log>>

\* the 60 Hz check that follows emulate_instr
\* the timer check of one iteration: since is current_ticks -
\* last_timer_update_tick at the previous check, ms the time since then
TimerCheck(c, since, ms) ==
    LET elapsed == since + ms
    IN IF elapsed >= timer_update_interval_ms
       THEN [chip8 |-> update_timers(c), since |-> 0]
       ELSE [chip8 |-> c, since |-> elapsed]

TimerUpdate ==
    /\ main_at = "timers"
    /\ \E ms \in IterationMs :
         LET r == TimerCheck(chip8, since_timer_update, ms)
         IN /\ chip8' = r.chip8
            /\ since_timer_update' = r.since
    /\ main_at' = "loop"
    /\ UNCHANGED <<exit_status, rom_name, user_keys, startup_log, prev, cycles>>

Next ==
    \/ Startup
    \/ PausedIteration
    \/ QuitIteration
    \/ EmulateCycle
    \/ TimerUpdate

(***************************************************************************)
(* ROMs of the default specification.                                      *)
(***************************************************************************)
\* 6005 700A: load V0 := 5, add-immediate V0 += 10, and nothing else
RomLoadAdd == <<"prog", <<24581, 28682>>>>
\* 1200: jump to the entry point
RomJumpSelf == <<"prog", <<4608>>>>

Roms == {RomLoadAdd, RomJumpSelf}

Init == InitWith(Roms, {})

Spec == Init /\ [][Next]_vars

(***************************************************************************)
(* Vocabulary of the properties.                                           *)
(***************************************************************************)
\* emulate_instr has just returned: chip8 is its result on the machine prev
Executed == main_at = "timers"

\* the instruction last executed
Last == chip8.instruction

\* the 8XYN instruction with low nibble n
IsAlu(in, n) == in.opcode \div 4096 = 8 /\ in.N = n

\* opcode words
Op(hi, X, Y, N) == hi * 4096 + X * 256 + Y * 16 + N
OpNN(hi, X, NN) == hi * 4096 + X * 256 + NN
OpNNN(hi, NNN) == hi * 4096 + NNN

\* the address of the n-th word (from 0) of a ROM
WordAt(n) == entry_point + 2 * n

(***************************************************************************)
(* ROMs of the arithmetic instructions: 6Xaa 6Ybb 8XYn, then a jump to     *)
(* itself.  With X = Y both operands are bb.                               *)
(***************************************************************************)
RegSamples == {0, 1, 14, 15}
ByteSamples == {0, 1, 127, 128, 255}

AluRom(n, X, Y, a, b) ==
    <<"prog", <<OpNN(6, X, a), OpNN(6, Y, b), Op(8, X, Y, n), OpNNN(1, WordAt(3))>>>>

AluRoms(n) ==
    {AluRom(n, X, Y, a, b) : X \in RegSamples, Y \in RegSamples,
                             a \in ByteSamples, b \in ByteSamples}

InitAdd == InitWith(AluRoms(4), {})

SpecAdd == InitAdd /\ [][Next]_vars

\* C1 (amended): after 8XY4 on a = V[X], b = V[Y], for X other than F the flag VF
\* is 1 iff a + b > 255 (else 0) and V[X] = (a + b) mod 256; for X = F the
\* destination is written after the flag, so VF = (a + b) mod 256.
C1_AddRegisters ==
    (Executed /\ IsAlu(Last, 4)) =>
        LET a == prev.V[Last.X]
            b == prev.V[Last.Y]
        IN IF Last.X # 15
           THEN /\ chip8.V[15] = (IF a + b > 255 THEN 1 ELSE 0)
                /\ chip8.V[Last.X] = (a + b) % 256
           ELSE chip8.V[15] = (a + b) % 256

\* C1 as claimed: for every X, Y the flag is the carry and V[X] is the sum mod 256
C1_AddRegisters_AsClaimed ==
    (Executed /\ IsAlu(Last, 4)) =>
        LET a == prev.V[Last.X]
            b == prev.V[Last.Y]
        IN /\ chip8.V[15] = (IF a + b > 255 THEN 1 ELSE 0)
           /\ chip8.V[Last.X] = (a + b) % 256

\* an add with a carry out, into a register other than VF, has been executed
C1_Witness ==
    /\ Executed /\ IsAlu(Last, 4)
    /\ Last.X # 15
    /\ prev.V[Last.X] + prev.V[Last.Y] > 255
    /\ chip8.V[15] = 1

(***************************************************************************)
(* Subtractions into a register other than VF, from any sampled register.  *)
(* (With VF as the destination the two results of the instruction are the  *)
(* same register.)                                                         *)
(***************************************************************************)
DestSamples == RegSamples \ {15}

SubRoms ==
    {AluRom(n, X, Y, a, b) : n \in {5, 7}, X \in DestSamples, Y \in RegSamples,
                             a \in ByteSamples, b \in ByteSamples}

InitSub == InitWith(SubRoms, {})

SpecSub == InitSub /\ [][Next]_vars

\* C2: after 8XY5 on a = V[X], b = V[Y], VF = 1 iff a >= b and V[X] = (a - b) mod 256;
\* after 8XY7, VF = 1 iff b >= a and V[X] = (b - a) mod 256
C2_SubRegisters ==
    (Executed /\ (IsAlu(Last, 5) \/ IsAlu(Last, 7))) =>
        LET a == prev.V[Last.X]
            b == prev.V[Last.Y]
        IN IF Last.N = 5
           THEN /\ chip8.V[15] = (IF a >= b THEN 1 ELSE 0)
                /\ chip8.V[Last.X] = (a - b) % 256
           ELSE /\ chip8.V[15] = (IF b >= a THEN 1 ELSE 0)
                /\ chip8.V[Last.X] = (b - a) % 256

(***************************************************************************)
(* Shifts of a register other than VF, and shifts of VF holding a value    *)
(* whose shifted-out bit equals its shifted value.                         *)
(***************************************************************************)
ShiftRoms ==
    {AluRom(n, X, Y, a, b) : n \in {6, 14}, X \in DestSamples, Y \in RegSamples,
                             a \in ByteSamples, b \in ByteSamples}
    \cup {AluRom(6, 15, Y, a, b) : Y \in DestSamples, a \in {0, 3}, b \in ByteSamples}
    \cup {AluRom(14, 15, Y, 0, b) : Y \in DestSamples, b \in ByteSamples}

InitShift == InitWith(ShiftRoms, {})

SpecShift == InitShift /\ [][Next]_vars

\* C3: after 8XY6, VF is the least-significant bit V[X] had and V[X] is the old
\* V[X] >> 1; after 8XYE, VF is the most-significant bit V[X] had and V[X] is
\* (old V[X] << 1) mod 256; V[Y] plays no part
C3_Shifts ==
    (Executed /\ (IsAlu(Last, 6) \/ IsAlu(Last, 14))) =>
        LET a == prev.V[Last.X]
        IN IF Last.N = 6
           THEN /\ chip8.V[15] = a % 2
                /\ chip8.V[Last.X] = a \div 2
           ELSE /\ chip8.V[15] = a \div 128
                /\ chip8.V[Last.X] = (a * 2) % 256

(***************************************************************************)
(* ROMs that draw a sprite twice: 6Xxx 6Yyy ANNN, a background (the five   *)
(* rows at I drawn at (VA, VB) = (0, 0), or nothing), DXYN DXYN, then a    *)
(* jump to itself.  The sprites are font glyphs (I = 0), zero bytes        *)
(* (I = 256) and the bytes of the ROM itself (I = 512).                    *)
(***************************************************************************)
DrawRegs == {<<0, 1>>, <<1, 1>>, <<15, 0>>, <<0, 15>>}
DrawXs == {0, 2, 255}
DrawYs == {0, 1, 255}
DrawIs == {0, 256, 512}
DrawNs == {0, 5, 15}
Backgrounds == {Op(13, 10, 11, 5), 0}

DrawRom(XY, x, y, addr, N, bg) ==
    <<"prog", <<OpNN(6, XY[1], x), OpNN(6, XY[2], y), OpNNN(10, addr), bg,
                Op(13, XY[1], XY[2], N), Op(13, XY[1], XY[2], N),
                OpNNN(1, WordAt(6))>>>>

DrawRoms ==
    {DrawRom(XY, x, y, addr, N, bg) : XY \in DrawRegs, x \in DrawXs, y \in DrawYs,
                                     addr \in DrawIs, N \in DrawNs, bg \in Backgrounds}

InitDraw == InitWith(DrawRoms, {})

SpecDraw == InitDraw /\ [][Next]_vars

IsDraw(in) == in.opcode \div 4096 = 13

\* the cells under the set bits of the sprite that the draw instruction `in` draws
\* on the machine c
Covered(c, in) ==
    {((c.V[in.Y] + r) % 32) * 64 + ((c.V[in.X] + b) % 64) :
        <<r, b>> \in {rb \in (0 .. in.N - 1) \X (0 .. 7) :
                        SpriteBit(RamRead(c.ram, c.I + rb[1]), rb[2])}}

\* the step that executes a draw right after the same draw, with the same index
\* register, origin registers and memory at both, and the sprite inside memory:
\* prev is the machine before the first draw, chip8 the machine after it
DrawnTwice ==
    /\ main_at = "loop" /\ main_at' = "timers"
    /\ IsDraw(chip8.instruction)
    /\ chip8'.instruction = chip8.instruction
    /\ prev'.I = prev.I
    /\ prev'.V[chip8.instruction.X] = prev.V[chip8.instruction.X]
    /\ prev'.V[chip8.instruction.Y] = prev.V[chip8.instruction.Y]
    /\ prev'.ram = prev.ram
    /\ prev.I + chip8.instruction.N <= RAM_SIZE

\* C4 (amended): the second of two identical draws restores the display the
\* first one found, and leaves VF = 1 iff the first draw left a pixel set that the
\* sprite covers, that is iff a cell the sprite covers was clear before the first
\* draw
C4_DrawTwice ==
    [][DrawnTwice =>
        LET cells == Covered(prev, chip8.instruction)
        IN /\ chip8'.display = prev.display
           /\ chip8'.V[15] = 1 <=> (\E p \in cells : Pixel(chip8.display, p))
           /\ chip8'.V[15] = 1 <=> (\E p \in cells : ~Pixel(prev.display, p))
           /\ chip8'.V[15] \in {0, 1}]_vars

\* C4 as claimed: the display is restored, and VF = 1 iff the first draw left a
\* covered pixel set, which is to be iff the sprite has a set bit
C4_DrawTwice_AsClaimed ==
    [][DrawnTwice =>
        LET cells == Covered(prev, chip8.instruction)
        IN /\ chip8'.display = prev.display
           /\ chip8'.V[15] = 1 <=> (\E p \in cells : Pixel(chip8.display, p))
           /\ chip8'.V[15] = 1 <=> (cells # {})]_vars

\* the second of two identical draws has run over a background: it collided, and
\* the display holds the background again
C4_Witness ==
    /\ Executed /\ IsDraw(Last)
    /\ prev.instruction = Last
    /\ Last.X # 15 /\ Last.Y # 15
    /\ chip8.V[15] = 1
    /\ chip8.display # {}
    /\ chip8.display # prev.display

(***************************************************************************)
(* ROMs that wait for a key: 6XEE FX0A A123, then a jump to itself: V[X]   *)
(* holds 0xEE, which is no key, until FX0A stores one, and I is 0x123 once  *)
(* the instruction after FX0A has run.  The user plays the keys of KeySyms. *)
(***************************************************************************)
KeyRom(X) ==
    <<"prog", <<OpNN(6, X, 238), OpNN(15, X, 10), OpNNN(10, 291),
                OpNNN(1, WordAt(3))>>>>

KeyRoms == {KeyRom(X) : X \in RegSamples}

InitKey == InitWith(KeyRoms, KeySyms)

SpecKey == InitKey /\ [][Next]_vars

IsWaitKey(in) == in.opcode \div 4096 = 15 /\ in.NN = 10

\* the register the FX0A of the loaded ROM names
WaitReg == Decode(OpNN(RamRead(chip8.ram, WordAt(1)), 0,
                       RamRead(chip8.ram, WordAt(1) + 1))).X

\* C5: an FX0A executed with no key down leaves PC where it was before the cycle,
\* at the FX0A, and leaves registers, index, stack, memory and display as they
\* were; the instruction after the FX0A has run only once a key was stored
C5_WaitNoKey ==
    /\ (Executed /\ IsWaitKey(Last) /\ Pressed(prev) = {}) =>
            /\ chip8.PC = prev.PC
            /\ Decode(Fetch(chip8)) = Last
            /\ chip8.V = prev.V
            /\ chip8.I = prev.I
            /\ chip8.stack = prev.stack
            /\ chip8.stack_pointer = prev.stack_pointer
            /\ chip8.ram = prev.ram
            /\ chip8.display = prev.display
    /\ (main_at # "start" /\ chip8.V[WaitReg] \notin 0 .. NUM_KEYS - 1) =>
            /\ chip8.I # 291
            /\ chip8.PC <= WordAt(1)

\* FX0A has run twice in a row with no key down, and the machine still sits on it
C5_Witness ==
    /\ Executed /\ IsWaitKey(Last) /\ Pressed(prev) = {}
    /\ IsWaitKey(prev.instruction)
    /\ chip8.PC = WordAt(1)
    /\ chip8.V[Last.X] = 238

\* C6: an FX0A executed with a key down leaves PC advanced by 2 and V[X] the
\* lowest index whose keypad entry is set; no other register changes
C6_WaitKey ==
    (Executed /\ IsWaitKey(Last) /\ Pressed(prev) # {}) =>
        /\ chip8.PC = prev.PC + 2
        /\ prev.keypad[chip8.V[Last.X]]
        /\ \A j \in 0 .. NUM_KEYS - 1 : j < chip8.V[Last.X] => ~prev.keypad[j]
        /\ \A i \in 0 .. NUM_REGS - 1 : i # Last.X => chip8.V[i] = prev.V[i]
        /\ chip8.I = prev.I

\* FX0A has run with the keys 2 and F down and has stored 2
C6_Witness ==
    /\ Executed /\ IsWaitKey(Last)
    /\ Pressed(prev) = {2, 15}
    /\ chip8.V[Last.X] = 2

(***************************************************************************)
(* ROM files by length: the jump 1200 cut or zero-padded to a length       *)
(* around the limits, and a file that does not exist.                      *)
(***************************************************************************)
RomLengths == {0, 1, 2, 3583, 3584, 3585, 3586}

LoadRoms == {<<"pad", <<4608>>, len>> : len \in RomLengths} \cup {<<"missing">>}

InitLoad == InitWith(LoadRoms, {"SDLK_x"})

SpecLoad == InitLoad /\ [][Next]_vars

C8_LoadThenAdd ==
    (rom_name = RomLoadAdd /\ Executed /\ cycles = 2) =>
        /\ chip8.V[0] = 15
        /\ chip8.PC = 516
        /\ \A i \in 1 .. 15 : chip8.V[i] = 0
        /\ chip8.state = RUNNING

\* the second cycle of the ROM 6005 700A has run
C8_Witness ==
    /\ rom_name = RomLoadAdd /\ Executed /\ cycles = 2
    /\ Last.opcode = 28682
    /\ chip8.V[0] = 15

\* C9: with the ROM 1200, after every completed cycle PC = 0x200 and the machine
\* is RUNNING as it was when the cycle began, and the stack, the registers, the
\* memory and the display are as the load left them
C9_JumpToSelf ==
    (rom_name = RomJumpSelf /\ main_at # "start") =>
        /\ Executed => (chip8.PC = 512 /\ chip8.state = RUNNING /\ prev.state = RUNNING)
        /\ chip8.PC = 512
        /\ chip8.V = [i \in 0 .. 15 |-> 0]
        /\ chip8.stack = [i \in 0 .. 11 |-> 0]
        /\ chip8.stack_pointer = 0
        /\ chip8.ram = init_chip8(rom_name).chip8.ram
        /\ chip8.display = {}

\* the ROM 1200 has completed MaxCycles cycles or more
C9_Witness ==
    /\ rom_name = RomJumpSelf /\ Executed
    /\ cycles = MaxCycles
    /\ Last.opcode = 4608
    /\ prev.PC = 512

(***************************************************************************)
(* ROMs that clear the screen: 60xx ANNN D01N 00E0, then a jump to itself. *)
(***************************************************************************)
ClearRom(x, addr, N) ==
    <<"prog", <<OpNN(6, 0, x), OpNNN(10, addr), Op(13, 0, 1, N), 224,
                OpNNN(1, WordAt(4))>>>>

ClearRoms == {ClearRom(x, addr, N) : x \in DrawXs, addr \in DrawIs, N \in DrawNs}

InitClear == InitWith(ClearRoms, {})

SpecClear == InitClear /\ [][Next]_vars

\* C10: after 00E0 every one of the 64 x 32 display cells is false
C10_ClearScreen ==
    (Executed /\ Last.opcode = 224) =>
        \A p \in 0 .. 64 * 32 - 1 : ~Pixel(chip8.display, p)

\* 00E0 has run on a display that held set cells below the first row
C10_Witness ==
    /\ Executed /\ Last.opcode = 224
    /\ \E p \in prev.display : p >= 64
    /\ chip8.display = {}

(***************************************************************************)
(* ROMs of calls and returns.  Each ends in a jump to itself, where the    *)
(* machine arrives when it is resumed after a stack violation.             *)
(*   2200 1202            a call of itself: twelve pushes, then overflow   *)
(*   00EE 1202            a return on the empty stack                      *)
(*   2202 2204 00EE 1206  nested calls, their returns, then underflow      *)
(*   2204 1202 00EE       a call and its return                            *)
(***************************************************************************)
StackRoms ==
    {<<"prog", <<8704, 4610>>>>,
     <<"prog", <<238, 4610>>>>,
     <<"prog", <<8706, 8708, 238, 4614>>>>,
     <<"prog", <<8708, 4610, 238>>>>}

InitStack == InitWith(StackRoms, {})

SpecStack == InitStack /\ [][Next]_vars

IsCall(in) == in.opcode \div 4096 = 2
IsRet(in) == in.opcode = 238

\* C11: the stack pointer is in 0 .. 12 in every state; a call at depth 12 does
\* not push and a return at depth 0 does not pop
C11_StackBounds ==
    /\ chip8.stack_pointer >= 0 /\ chip8.stack_pointer <= 12
    /\ (Executed /\ IsCall(Last) /\ prev.stack_pointer = 12) =>
            (chip8.stack_pointer = 12 /\ chip8.stack = prev.stack)
    /\ (Executed /\ IsRet(Last) /\ prev.stack_pointer = 0) =>
            (chip8.stack_pointer = 0 /\ chip8.stack = prev.stack)
    /\ (Executed /\ IsCall(Last) /\ prev.stack_pointer < 12) =>
            chip8.stack_pointer = prev.stack_pointer + 1
    /\ (Executed /\ IsRet(Last) /\ prev.stack_pointer > 0) =>
            chip8.stack_pointer = prev.stack_pointer - 1

\* a call has run with twelve return addresses on the stack
C11_Witness ==
    /\ Executed /\ IsCall(Last)
    /\ prev.stack_pointer = 12
    /\ chip8.stack_pointer = 12

\* a call on the full stack or a return on the empty stack has just run
StackViolation ==
    /\ Executed
    /\ \/ IsCall(Last) /\ prev.stack_pointer = 12
       \/ IsRet(Last) /\ prev.stack_pointer = 0

\* C12: a stack violation leaves the machine PAUSED, the stack and its pointer as
\* they were, and PC behind the instruction instead of at the call target or at
\* a popped address; a PAUSED machine executes no instruction unless get_input
\* has made it RUNNING before (a Resume), and a Quit event makes it QUIT
C12_StackViolation ==
    /\ [](StackViolation =>
            /\ chip8.state = PAUSED
            /\ chip8.stack = prev.stack
            /\ chip8.stack_pointer = prev.stack_pointer
            /\ chip8.PC = prev.PC + 2
            /\ IsCall(Last) => chip8.PC # Last.NNN)
    /\ [](chip8.state = PAUSED =>
            /\ get_input(chip8, <<>>).state = PAUSED
            /\ get_input(chip8, <<[type |-> "SDL_QUIT", sym |-> ""]>>).state = QUIT)
    /\ [][(chip8.state = PAUSED /\ main_at' = "timers" /\ main_at = "loop") =>
            /\ prev'.state = RUNNING
            /\ \E events \in EventBatches :
                 /\ \E i \in 1 .. Len(events) :
                        events[i] = [type |-> "SDL_KEYDOWN", sym |-> "SDLK_SPACE"]
                 /\ prev' = get_input(chip8, events)]_vars
    /\ [][(chip8.state = PAUSED /\ main_at = "timers") =>
            (main_at' = "loop" /\ chip8'.PC = chip8.PC /\ chip8'.state = PAUSED)]_vars

\* the machine, paused by a return on the empty stack, has been resumed and has
\* executed the next instruction
C12_Witness ==
    /\ Executed
    /\ IsRet(prev.instruction) /\ prev.stack_pointer = 0
    /\ prev.PC = WordAt(1)
    /\ chip8.state = RUNNING
    /\ cycles = 2

(***************************************************************************)
(* ROMs that reach the end of the RAM:                                     *)
(*   60vv 61EA ANNN F01E op, then a jump to itself: I = NNN + vv, then a   *)
(*   store-BCD, register dump, register load or draw at I;                 *)
(*   1FFE, 1FFF and 60FF BFFF: jumps to the last addresses and past them.  *)
(***************************************************************************)
EndAddrs == {4093, 4094, 4095}
EndOffsets == {0, 1, 255}
EndOps == {OpNN(15, 0, 51), OpNN(15, 1, 51), OpNN(15, 0, 85), OpNN(15, 1, 85),
           OpNN(15, 0, 101), OpNN(15, 1, 101), Op(13, 0, 1, 2), Op(13, 0, 1, 15)}

EndRom(addr, v, op) ==
    <<"prog", <<OpNN(6, 0, v), OpNN(6, 1, 234), OpNNN(10, addr), OpNN(15, 0, 30), op,
                OpNNN(1, WordAt(5))>>>>

EndRoms ==
    {EndRom(addr, v, op) : addr \in EndAddrs, v \in EndOffsets, op \in EndOps}
    \cup {<<"prog", <<OpNNN(1, 4094)>>>>, <<"prog", <<OpNNN(1, 4095)>>>>,
          <<"prog", <<OpNN(6, 0, 255), OpNNN(11, 4095)>>>>}

InitEnd == InitWith(EndRoms, {})

SpecEnd == InitEnd /\ [][Next]_vars

IsBcd(in) == in.opcode \div 4096 = 15 /\ in.NN = 51
IsDump(in) == in.opcode \div 4096 = 15 /\ in.NN = 85
IsLoad(in) == in.opcode \div 4096 = 15 /\ in.NN = 101

\* the RAM addresses that one cycle reads or writes when main runs it on the
\* machine c: the two bytes of the opcode, then the bytes of the instruction
MemAccesses(c) ==
    IF ~PcInRange(c) THEN {}
    ELSE LET d == [c EXCEPT !.instruction = Decode(Fetch(c))]
             in == d.instruction
         IN {c.PC, c.PC + 1} \cup
            (CASE IsDraw(in) ->
                    {d.I + r : r \in {q \in 0 .. in.N - 1 :
                                        \A p \in 0 .. q : RowInRange(d, p)}}
               [] IsBcd(in) -> IF BcdInRange(d) THEN d.I .. d.I + 2 ELSE {}
               [] IsDump(in) -> IF DumpInRange(d) THEN d.I .. d.I + in.X ELSE {}
               [] IsLoad(in) -> IF LoadInRange(d) THEN d.I .. d.I + in.X ELSE {}
               [] OTHER -> {})

\* C13: every address the machine reads or writes (opcode fetch, sprite rows,
\* BCD store, register dump, register load) is in 0 .. 4095; an instruction
\* whose access would fall outside leaves memory and registers as they were
C13_MemoryBounds ==
    /\ (main_at \in {"loop", "timers"}) =>
            \A a \in MemAccesses(chip8) : a >= 0 /\ a < 4096
    /\ \A a \in DOMAIN chip8.ram : a >= 0 /\ a < 4096
    /\ Executed => (prev.PC >= 0 /\ prev.PC + 1 < 4096)
    /\ (Executed /\ IsBcd(Last) /\ prev.I + 2 >= 4096) => chip8.ram = prev.ram
    /\ (Executed /\ IsDump(Last) /\ prev.I + Last.X >= 4096) => chip8.ram = prev.ram
    /\ (Executed /\ IsLoad(Last) /\ prev.I + Last.X >= 4096) => chip8.V = prev.V

\* a store-BCD whose last byte would lie at address 4096 has run and has written
\* nothing
C13_Witness ==
    /\ Executed /\ IsBcd(Last)
    /\ prev.I = 4094
    /\ prev.V[Last.X] = 234
    /\ chip8.ram = prev.ram

(***************************************************************************)
(* ROMs that store at the font table: 607B 61EA ANNN op, then a jump to    *)
(* itself, with a store-BCD, a register dump, a register load or a draw of *)
(* the bytes at I.                                                         *)
(***************************************************************************)
FontAddrs == {0, 77, 78, 80}
FontOps == {OpNN(15, 0, 51), OpNN(15, 1, 85), OpNN(15, 1, 101), Op(13, 0, 1, 5)}

FontRom(addr, op) ==
    <<"prog", <<OpNN(6, 0, 123), OpNN(6, 1, 234), OpNNN(10, addr), op,
                OpNNN(1, WordAt(4))>>>>

FontRoms == {FontRom(addr, op) : addr \in FontAddrs, op \in FontOps}

InitFont == InitWith(FontRoms, {})

SpecFont == InitFont /\ [][Next]_vars

\* C14: in every state after initialization the bytes at 0x000 .. 0x04F are the
\* 80 bytes of the font table
C14_FontImmutable ==
    main_at # "start" =>
        \A a \in 0 .. 79 : RamRead(chip8.ram, a) = font[a + 1]

\* the decimal digits of a byte, hundreds first
Digits(v) == <<v \div 100, (v \div 10) % 10, v % 10>>

\* C15: a store-BCD, register dump or register load that straddles the end of
\* the RAM (I <= 4095, I + last offset >= 4096) transfers the bytes whose
\* addresses are in range; the machine stays RUNNING and PC advances by 2
C15_FailSoft ==
    (Executed /\ prev.I <= 4095) =>
        /\ (IsBcd(Last) /\ prev.I + 2 >= 4096) =>
              /\ \A k \in 0 .. 2 : prev.I + k <= 4095 =>
                    RamRead(chip8.ram, prev.I + k) = Digits(prev.V[Last.X])[k + 1]
              /\ chip8.state = RUNNING /\ chip8.PC = prev.PC + 2
        /\ (IsDump(Last) /\ prev.I + Last.X >= 4096) =>
              /\ \A i \in 0 .. Last.X : prev.I + i <= 4095 =>
                    RamRead(chip8.ram, prev.I + i) = prev.V[i]
              /\ chip8.state = RUNNING /\ chip8.PC = prev.PC + 2
        /\ (IsLoad(Last) /\ prev.I + Last.X >= 4096) =>
              /\ \A i \in 0 .. Last.X : prev.I + i <= 4095 =>
                    chip8.V[i] = RamRead(prev.ram, prev.I + i)
              /\ chip8.state = RUNNING /\ chip8.PC = prev.PC + 2

(***************************************************************************)
(* ROMs of opcodes outside the instruction set: 6003 F015 A000 D125 op,    *)
(* then a jump to itself.  The opcode runs with the delay timer set and    *)
(* the glyph "0" on the display.                                           *)
(***************************************************************************)
\* 0000 0123 00E1 01E0 01EE 5121 9121 8128 812F E100 E19F F100 F11D F1FF
UnrecognizedOps ==
    {0, 291, 225, 480, 494, Op(5, 1, 2, 1), Op(9, 1, 2, 1), Op(8, 1, 2, 8),
     Op(8, 1, 2, 15), OpNN(14, 1, 0), OpNN(14, 1, 159), OpNN(15, 1, 0),
     OpNN(15, 1, 29), OpNN(15, 1, 255)}

UnrecognizedRom(op) ==
    <<"prog", <<OpNN(6, 0, 3), OpNN(15, 0, 21), OpNNN(10, 0), Op(13, 1, 2, 5), op,
                OpNNN(1, WordAt(5))>>>>

UnrecognizedRoms == {UnrecognizedRom(op) : op \in UnrecognizedOps}

InitUnrecognized == InitWith(UnrecognizedRoms, {})

SpecUnrecognized == InitUnrecognized /\ [][Next]_vars

\* the 16-bit words outside the defined instruction set
Unrecognized(in) ==
    LET hi == in.opcode \div 4096
    IN \/ hi = 0 /\ in.opcode \notin {224, 238}
       \/ hi \in {5, 9} /\ in.N # 0
       \/ hi = 8 /\ in.N \in {8, 9, 10, 11, 12, 13, 15}
       \/ hi = 14 /\ in.NN \notin {158, 161}
       \/ hi = 15 /\ in.NN \notin {7, 10, 21, 24, 30, 41, 51, 85, 101}

\* C16: a cycle on an unrecognized opcode changes nothing but PC, which advances
\* by 2: registers, index, stack, memory, display and timers are as before and
\* the machine is still RUNNING
C16_UnrecognizedNoOp ==
    (Executed /\ Unrecognized(Last)) =>
        /\ chip8.PC = prev.PC + 2
        /\ chip8.state = RUNNING
        /\ chip8.V = prev.V
        /\ chip8.I = prev.I
        /\ chip8.stack = prev.stack
        /\ chip8.stack_pointer = prev.stack_pointer
        /\ chip8.ram = prev.ram
        /\ chip8.display = prev.display
        /\ chip8.delay_timer = prev.delay_timer
        /\ chip8.sound_timer = prev.sound_timer

(***************************************************************************)
(* ROMs that set the timers: 60dd 61ss F118 F015, then a jump to itself.   *)
(***************************************************************************)
TimerValues == {0, 1, 255}

TimerRom(d, s) ==
    <<"prog", <<OpNN(6, 0, d), OpNN(6, 1, s), OpNN(15, 1, 24), OpNN(15, 0, 21),
                OpNNN(1, WordAt(4))>>>>

TimerRoms == {TimerRom(d, s) : d \in TimerValues, s \in TimerValues}

InitTimer == InitWith(TimerRoms, {})

SpecTimer == InitTimer /\ [][Next]_vars

\* one tick of a counter
Ticked(t) == IF t > 0 THEN t - 1 ELSE 0

\* C17: a timer tick takes 1 from each of the two counters that is not 0 and
\* leaves a counter that is 0 at 0; both counters are always in 0..255, a tick
\* never wraps 0 to 255, and the timer step changes nothing else of the machine
C17_TimerTick ==
    /\ [](chip8.delay_timer \in 0 .. 255 /\ chip8.sound_timer \in 0 .. 255)
    /\ [][(main_at = "timers" /\ main_at' = "loop") =>
            \/ chip8' = chip8
            \/ chip8' = [chip8 EXCEPT !.delay_timer = Ticked(chip8.delay_timer),
                                      !.sound_timer = Ticked(chip8.sound_timer)]]_vars
    /\ [][(main_at = "timers" /\ since_timer_update' = 0) =>
            /\ chip8'.delay_timer = Ticked(chip8.delay_timer)
            /\ chip8'.sound_timer = Ticked(chip8.sound_timer)]_vars

\* a tick has taken the delay timer from 255 to 254 and left the sound timer at 0
C17_Witness ==
    /\ main_at = "loop"
    /\ chip8.V[1] = 0
    /\ chip8.delay_timer = 254
    /\ chip8.sound_timer = 0

\* C18: while the machine runs, a non-zero timer loses 1 for every interval of
\* 1/60 s of wall-clock time, however long one iteration lasts: at each timer
\* check the time elapsed since the previous one is either turned into ticks
\* of the delay timer or carried over to the next check
C18_TimerCadence ==
    (main_at = "timers" /\ chip8.state = RUNNING) =>
        \A ms \in IterationMs :
            LET elapsed == since_timer_update + ms
                r       == TimerCheck(chip8, since_timer_update, ms)
                ticks   == chip8.delay_timer - r.chip8.delay_timer
            IN chip8.delay_timer >= elapsed \div timer_update_interval_ms =>
                   /\ ticks = elapsed \div timer_update_interval_ms
                   /\ r.since = elapsed % timer_update_interval_ms

(***************************************************************************)
(* ROMs that wait for a key while the delay timer runs: 60dd F015 F10A     *)
(* A123, then a jump to itself.  The loop of main has no exit but QUIT and *)
(* every clock reading is later than the one before, so the loop is        *)
(* weakly fair.                                                            *)
(***************************************************************************)
WaitDelays == {1, 3}

WaitRom(d) ==
    <<"prog", <<OpNN(6, 0, d), OpNN(15, 0, 21), OpNN(15, 1, 10), OpNNN(10, 291),
                OpNNN(1, WordAt(4))>>>>

WaitRoms == {WaitRom(d) : d \in WaitDelays}

InitWait == InitWith(WaitRoms, {"SDLK_x"})

SpecWaitFair == InitWait /\ [][Next]_vars /\ WF_vars(Next)

\* the running machine is at the FX0A of the ROM
AtWaitKey ==
    /\ main_at \in {"loop", "timers"}
    /\ chip8.state = RUNNING
    /\ chip8.PC = WordAt(2)

KeyHeld == \E k \in 0 .. NUM_KEYS - 1 : chip8.keypad[k]

\* C19: while the running machine sits on an FX0A the loop keeps ticking the
\* timers, so a non-zero delay timer reaches 0 unless the wait ends first (a
\* key, a pause or a quit); and with a key held the FX0A completes and PC moves
\* past it, unless the key is released or the machine paused or quit first
C19_WaitKeepsTicking ==
    /\ (AtWaitKey /\ chip8.delay_timer > 0) ~>
           (chip8.delay_timer = 0 \/ ~AtWaitKey)
    /\ (AtWaitKey /\ KeyHeld) ~>
           \/ chip8.state = RUNNING /\ chip8.PC # WordAt(2)
           \/ chip8.state # RUNNING
           \/ ~KeyHeld

\* the delay timer, set to a non-zero value, has run down to 0 while the
\* machine waits on the FX0A with no key down
C19_Witness ==
    /\ AtWaitKey /\ main_at = "loop"
    /\ IsWaitKey(prev.instruction) /\ IsWaitKey(Last)
    /\ ~KeyHeld
    /\ prev.delay_timer > 0
    /\ chip8.delay_timer = 0

\* the space bar goes down
PauseSignal == <<[type |-> "SDL_KEYDOWN", sym |-> "SDLK_SPACE"]>>

QuitSignals ==
    {<<[type |-> "SDL_QUIT", sym |-> ""]>>,
     <<[type |-> "SDL_KEYDOWN", sym |-> "SDLK_ESCAPE"]>>}

\* C21: a Quit signal takes the RUNNING or PAUSED machine to QUIT; the step that
\* does so ends the loop with exit status 0 and runs neither an instruction nor
\* a timer tick; after the exit nothing happens any more and no event takes the
\* machine out of QUIT
C21_Quit ==
    /\ []((main_at = "loop" /\ chip8.state \in {RUNNING, PAUSED}) =>
              \A q \in QuitSignals : get_input(chip8, q).state = QUIT)
    /\ [][(chip8.state # QUIT /\ chip8'.state = QUIT) =>
              /\ main_at' = "exited"
              /\ exit_status' = EXIT_SUCCESS
              /\ prev' = prev /\ cycles' = cycles
              /\ chip8'.PC = chip8.PC
              /\ chip8'.V = chip8.V
              /\ chip8'.I = chip8.I
              /\ chip8'.stack = chip8.stack
              /\ chip8'.stack_pointer = chip8.stack_pointer
              /\ chip8'.ram = chip8.ram
              /\ chip8'.display = chip8.display
              /\ chip8'.delay_timer = chip8.delay_timer
              /\ chip8'.sound_timer = chip8.sound_timer]_vars
    /\ []((main_at = "exited" /\ exit_status = EXIT_SUCCESS) =>
              /\ chip8.state = QUIT
              /\ \A events \in EventBatches : get_input(chip8, events).state = QUIT)
    /\ [][main_at # "exited"]_vars

\* the user has quit a machine that had executed instructions and whose delay
\* timer was still running
C21_Witness ==
    /\ main_at = "exited"
    /\ exit_status = EXIT_SUCCESS
    /\ chip8.state = QUIT
    /\ cycles >= 1
    /\ chip8.delay_timer > 0

(***************************************************************************)
(* ROM files of several lengths whose bytes are not 0: a jump to itself,   *)
(* then FFFF ABCD, cut or padded; and a file that fills the memory up to   *)
(* its last byte with FF.                                                  *)
(***************************************************************************)
InitLengths == {1, 2, 3, 5, 6, 7}

FullRom == <<"fill", <<OpNNN(1, WordAt(0))>>, RAM_SIZE - entry_point, 255>>

InitRoms ==
    {<<"pad", <<OpNNN(1, WordAt(0)), 65535, 43981>>, len>> : len \in InitLengths}
        \cup {FullRom}

InitInit == InitWith(InitRoms, {"SDLK_x"})

SpecInit == InitInit /\ [][Next]_vars

\* C22: after a successful load of a ROM of length L, PC = 0x200, the stack
\* pointer, the 16 registers, the index register and both timers are 0, no key
\* is down and no display cell is lit, the machine is RUNNING, memory
\* [0x000, 0x050) holds the font, memory [0x200, 0x200 + L) holds the bytes of
\* the file and every other byte of memory is 0
C22_InitialState ==
    [][(main_at = "start" /\ main_at' = "loop") =>
          LET rom == RomFile(rom_name)
              L   == Len(rom)
          IN /\ chip8'.PC = 512
             /\ chip8'.stack_pointer = 0
             /\ \A i \in 0 .. 15 : chip8'.V[i] = 0 /\ ~chip8'.keypad[i]
             /\ chip8'.I = 0
             /\ chip8'.delay_timer = 0 /\ chip8'.sound_timer = 0
             /\ \A p \in 0 .. 2047 : ~Pixel(chip8'.display, p)
             /\ chip8'.state = RUNNING
             /\ \A a \in 0 .. 4095 :
                    RamRead(chip8'.ram, a) =
                        IF a < 80 THEN font[a + 1]
                        ELSE IF a >= 512 /\ a < 512 + L THEN rom[a - 511]
                        ELSE 0]_vars

\* the machine just loaded from the file that fills the memory: its last byte
\* is in place and nothing has run yet
C22_Witness ==
    /\ main_at = "loop"
    /\ cycles = 0
    /\ chip8.PC = 512
    /\ Len(RomFile(rom_name)) = 3584
    /\ RamRead(chip8.ram, 4095) = 255
    /\ RamRead(chip8.ram, 511) = 0

\* C23: the display changes only in a cycle that executes the clear-screen
\* instruction 00E0 or a draw-sprite instruction DXYN: no other instruction, no
\* unrecognized opcode, no timer tick, no input event and no pause or resume
\* changes a display cell
C23_DisplayWriters ==
    [][chip8'.display # chip8.display =>
          /\ main_at = "loop" /\ main_at' = "timers"
          /\ chip8'.instruction.opcode = 224 \/ IsDraw(chip8'.instruction)]_vars

(***************************************************************************)
(* ROMs of the skip instructions: 60vv 61ww op 6A01 F20A, then a jump to   *)
(* itself; op is 3002, 4002, 5010, 9010, E09E or E0A1, and the user plays  *)
(* key 2.                                                                  *)
(***************************************************************************)
SkipValues == {0, 2, 18}
SkipOthers == {0, 2}

SkipOps ==
    {OpNN(3, 0, 2), OpNN(4, 0, 2), Op(5, 0, 1, 0), Op(9, 0, 1, 0),
     OpNN(14, 0, 158), OpNN(14, 0, 161)}

SkipRom(v, w, op) ==
    <<"prog", <<OpNN(6, 0, v), OpNN(6, 1, w), op, OpNN(6, 10, 1), OpNN(15, 2, 10),
                OpNNN(1, WordAt(5))>>>>

SkipRoms == {SkipRom(v, w, op) : v \in SkipValues, w \in SkipOthers, op \in SkipOps}

InitSkip == InitWith(SkipRoms, {"SDLK_2"})

SpecSkip == InitSkip /\ [][Next]_vars

\* the CHIP-8 keys the user can reach
UserKeys == {KeyOf(sym) : sym \in user_keys}

\* C24: no instruction, the wait for a key and the two key skips included, and
\* no timer tick changes a keypad flag; a flag changes only in the input
\* polling of a loop iteration, and only the flag of a key the user plays
C24_KeypadReadOnly ==
    /\ [](Executed => chip8.keypad = prev.keypad)
    /\ [][main_at = "timers" => chip8'.keypad = chip8.keypad]_vars
    /\ [][chip8'.keypad # chip8.keypad =>
             /\ main_at = "loop"
             /\ \A k \in 0 .. NUM_KEYS - 1 :
                    chip8'.keypad[k] # chip8.keypad[k] => k \in UserKeys]_vars

\* an FX0A has stored key 2 and the key is still down
C24_Witness ==
    /\ Executed /\ IsWaitKey(Last)
    /\ chip8.PC = WordAt(5)
    /\ chip8.V[2] = 2
    /\ chip8.keypad[2]

\* the six conditional skips
IsSkip(in) ==
    LET hi == in.opcode \div 4096
    IN \/ hi \in {3, 4}
       \/ hi \in {5, 9} /\ in.N = 0
       \/ hi = 14 /\ in.NN \in {158, 161}

\* the condition of a skip instruction on the machine it is executed on
SkipCondition(c, in) ==
    LET hi == in.opcode \div 4096
    IN CASE hi = 3 -> c.V[in.X] = in.NN
         [] hi = 4 -> c.V[in.X] # in.NN
         [] hi = 5 -> c.V[in.X] = c.V[in.Y]
         [] hi = 9 -> c.V[in.X] # c.V[in.Y]
         [] hi = 14 /\ in.NN = 158 -> c.keypad[c.V[in.X] % 16]
         [] hi = 14 /\ in.NN = 161 -> ~c.keypad[c.V[in.X] % 16]

\* C30: a cycle on 3XNN, 4XNN, 5XY0, 9XY0, EX9E or EXA1 advances PC by 4 when
\* the condition of the instruction holds and by 2 when it does not, and leaves
\* the registers, the index, memory, the stack, the display and the timers as
\* they were
C30_ConditionalSkips ==
    (Executed /\ IsSkip(Last)) =>
        /\ chip8.PC = prev.PC + (IF SkipCondition(prev, Last) THEN 4 ELSE 2)
        /\ chip8 = [prev EXCEPT !.PC = chip8.PC, !.instruction = Last]

\* EX9E has skipped with V0 = 18 and key 2 down
C30_Witness ==
    /\ Executed /\ IsSkip(Last)
    /\ Last.opcode \div 4096 = 14 /\ Last.NN = 158
    /\ prev.V[0] = 18
    /\ prev.keypad[2]
    /\ chip8.PC = prev.PC + 4

(***************************************************************************)
(* ROMs of control flow: the ROMs of calls and returns, the skip ROMs with *)
(* V0 = V1 = 2, and                                                        *)
(*   6002 B204 0000 1206   a jump to V0 + 204, even, then a jump to itself *)
(*   6001 B204 0012 0500   the same to 205, odd, where 1205 is read        *)
(*   1203 0012 0300        a jump to 203, odd, where 1203 is read          *)
(*   2203 1200 EE00        a call of 203, odd, where 00EE is read          *)
(***************************************************************************)
FlowRoms ==
    StackRoms
        \cup {SkipRom(2, 2, op) : op \in SkipOps}
        \cup {<<"prog", <<OpNN(6, 0, 2), OpNNN(11, 516), 0, OpNNN(1, 518)>>>>,
              <<"prog", <<OpNN(6, 0, 1), OpNNN(11, 516), 18, 1280>>>>,
              <<"prog", <<OpNNN(1, 515), 18, 768>>>>,
              <<"prog", <<OpNNN(2, 515), OpNNN(1, 512), 60928>>>>}

InitFlow == InitWith(FlowRoms, {"SDLK_2"})

SpecFlow == InitFlow /\ [][Next]_vars

\* PC and the return addresses on the stack are even
EvenFlow(c) ==
    /\ c.PC % 2 = 0
    /\ \A i \in 0 .. STACK_SIZE - 1 : i < c.stack_pointer => c.stack[i] % 2 = 0

\* the instruction in, executed on the machine c, is a jump or a call with an
\* odd target, or a jump-indexed with V0 + NNN odd
OddTransfer(c, in) ==
    LET hi == in.opcode \div 4096
    IN \/ hi \in {1, 2} /\ in.NNN % 2 = 1
       \/ hi = 11 /\ (c.V[0] + in.NNN) % 2 = 1

\* C25: PC is even when the machine is loaded, and a step keeps PC and the
\* return addresses even unless it executes a jump or a call with an odd target
\* or a jump-indexed with V0 + NNN odd: the sequential advance, the skips, the
\* roll-back of the wait for a key and the return never make PC odd
C25_EvenPC ==
    /\ []((main_at = "loop" /\ cycles = 0) => EvenFlow(chip8))
    /\ [][(EvenFlow(chip8)
             /\ ~(main_at' = "timers" /\ OddTransfer(prev', chip8'.instruction)))
          => EvenFlow(chip8')]_vars

\* a return has brought the machine back to an even address after a call
C25_Witness ==
    /\ Executed /\ Last.opcode = 238
    /\ EvenFlow(prev) /\ EvenFlow(chip8)
    /\ chip8.stack_pointer = prev.stack_pointer - 1
    /\ chip8.PC = WordAt(1)

\* the display cells a DXYN `in` executed on the machine c aims at: for the
\* origin (V[X] mod 64, V[Y] mod 32), the cells ((x + b) mod 64, (y + r) mod 32)
\* of the set bits b of the sprite rows r, bit 0 being the most significant
SpriteCells(c, in) ==
    LET x == c.V[in.X] % 64
        y == c.V[in.Y] % 32
    IN {((y + r) % 32) * 64 + ((x + b) % 64) :
           <<r, b>> \in {rb \in (0 .. in.N - 1) \X (0 .. 7) :
                           (RamRead(c.ram, c.I + rb[1]) \div Pow2(7 - rb[2])) % 2 = 1}}

\* C26: a draw-sprite whose rows lie inside the memory toggles exactly the
\* cells its set sprite bits aim at, wrapping at the right and bottom edges,
\* and leaves every other cell as it was
C26_DrawPixels ==
    (Executed /\ IsDraw(Last) /\ prev.I + Last.N <= 4096) =>
        LET cells == SpriteCells(prev, Last)
        IN chip8.display = (prev.display \ cells) \cup (cells \ prev.display)

\* the glyph "0" drawn at (255, 255), that is at (63, 31): its second row has
\* wrapped to the top and its fourth bit to the left, lighting cell (2, 0)
C26_Witness ==
    /\ Executed /\ IsDraw(Last) /\ Last.N = 5
    /\ prev.I = 0
    /\ prev.V[Last.X] = 255 /\ prev.V[Last.Y] = 255
    /\ ~Pixel(prev.display, 2)
    /\ Pixel(chip8.display, 2)
    /\ Pixel(chip8.display, 31 * 64 + 63)

\* C27: after a draw-sprite whose rows lie inside the memory VF is 1 when a set
\* sprite bit aimed at a cell that was lit, and 0 when none did, whatever VF
\* held before; VF is 0 for N = 0 and for a sprite of zero bytes
C27_DrawCollision ==
    (Executed /\ IsDraw(Last) /\ prev.I + Last.N <= 4096) =>
        LET cells == SpriteCells(prev, Last)
        IN /\ chip8.V[15] = IF cells \cap prev.display # {} THEN 1 ELSE 0
           /\ (Last.N = 0 \/ cells = {}) => chip8.V[15] = 0

\* a draw had set VF to 1 for a collision, and the next draw, of a sprite with
\* set bits that meets no lit cell, has put VF back to 0
C27_Witness ==
    /\ Executed /\ IsDraw(Last) /\ IsDraw(prev.instruction)
    /\ prev.V[15] = 1
    /\ SpriteCells(prev, Last) # {}
    /\ SpriteCells(prev, Last) \cap prev.display = {}
    /\ chip8.V[15] = 0

(***************************************************************************)
(* ROMs that draw a sprite lying across the end of the RAM, in a file that *)
(* fills the memory with FF: 60vv AFFD F01E D12N, then a jump to itself,   *)
(* so that I is 4093 + vv and the sprite rows inside the RAM have bits.    *)
(***************************************************************************)
EdgeOffsets == {0, 1, 2, 3}
EdgeNs == {2, 15}

EdgeRom(v, N) ==
    <<"fill", <<OpNN(6, 0, v), OpNNN(10, 4093), OpNN(15, 0, 30), Op(13, 1, 2, N),
                OpNNN(1, WordAt(4))>>, RAM_SIZE - entry_point, 255>>

EdgeRoms == {EdgeRom(v, N) : v \in EdgeOffsets, N \in EdgeNs}

InitEdge == InitWith(EdgeRoms, {})

SpecEdge == InitEdge /\ [][Next]_vars

\* C28: a draw-sprite with a row at or past address 4096 draws the rows below
\* 4096 as usual and none of the others, reads no address outside 0 .. 4095,
\* leaves the machine RUNNING and PC advanced by 2
C28_DrawPastEnd ==
    (Executed /\ IsDraw(Last) /\ prev.I + Last.N > 4096) =>
        LET rows  == IF prev.I >= 4096 THEN 0 ELSE 4096 - prev.I
            cells == SpriteCells(prev, [Last EXCEPT !.N = rows])
        IN /\ chip8.display = (prev.display \ cells) \cup (cells \ prev.display)
           /\ chip8.V[15] = IF cells \cap prev.display # {} THEN 1 ELSE 0
           /\ \A a \in MemAccesses(prev) : a >= 0 /\ a < 4096
           /\ chip8.ram = prev.ram
           /\ chip8.state = RUNNING
           /\ chip8.PC = prev.PC + 2

\* a sprite of 15 rows at 4094: the two rows inside the RAM are drawn, the
\* third is not
C28_Witness ==
    /\ Executed /\ IsDraw(Last) /\ Last.N = 15
    /\ prev.I = 4094
    /\ Pixel(chip8.display, 0) /\ Pixel(chip8.display, 64 + 7)
    /\ ~Pixel(chip8.display, 128)

(***************************************************************************)
(* A ROM of twelve nested calls: word 0 calls the routine at word 2 and    *)
(* word 1 is a jump to itself; the routine at word 2i, i = 1 .. 11, calls  *)
(* the routine at word 2i + 2 and returns at word 2i + 1; word 24 returns. *)
(***************************************************************************)
NestDepth == STACK_SIZE

NestRom ==
    <<"prog", [i \in 1 .. 2 * NestDepth + 1 |->
                  IF i = 2 THEN OpNNN(1, WordAt(1))
                  ELSE IF i % 2 = 1 /\ i < 2 * NestDepth + 1 THEN OpNNN(2, WordAt(i + 1))
                  ELSE 238]>>

NestRoms == StackRoms \cup {NestRom}

InitNest == InitWith(NestRoms, {})

SpecNest == InitNest /\ [][Next]_vars

\* the 16-bit word of the RAM at address a
WordIn(ram, a) == RamRead(ram, a) * 256 + RamRead(ram, a + 1)

\* C29: a call at address A with fewer than 12 entries on the stack pushes A + 2
\* and sets PC to its target; a return on a non-empty stack takes the newest
\* entry: PC is A + 2 for the call at A that pushed it, the stack pointer is what
\* it was before that call, and the older entries stay, so that nested calls
\* return in the reverse order of the calls
C29_CallReturn ==
    /\ (Executed /\ IsCall(Last) /\ prev.stack_pointer < 12) =>
           /\ chip8.stack[prev.stack_pointer] = (prev.PC + 2)
           /\ chip8.stack_pointer = prev.stack_pointer + 1
           /\ chip8.PC = Last.NNN
           /\ \A i \in 0 .. 11 : i # prev.stack_pointer => chip8.stack[i] = prev.stack[i]
    /\ (Executed /\ IsRet(Last) /\ prev.stack_pointer > 0) =>
           /\ chip8.PC = prev.stack[prev.stack_pointer - 1]
           /\ IsCall(Decode(WordIn(chip8.ram, chip8.PC - 2)))
           /\ chip8.stack_pointer = prev.stack_pointer - 1
           /\ \A i \in 0 .. 11 : i < chip8.stack_pointer => chip8.stack[i] = prev.stack[i]
    /\ (main_at \in {"loop", "timers"} /\ rom_name = NestRom) =>
           \A i \in 0 .. 11 : i < chip8.stack_pointer => chip8.stack[i] = WordAt(2 * i + 1)

\* the twelve nested calls have all returned: the last return has taken the
\* machine back to the word after the first call, with the stack empty
C29_Witness ==
    /\ rom_name = NestRom
    /\ Executed /\ IsRet(Last)
    /\ prev.stack_pointer = 1
    /\ chip8.stack_pointer = 0
    /\ chip8.PC = WordAt(1)
    /\ chip8.stack[11] = WordAt(23)

(***************************************************************************)
(* ROMs of register dumps and loads inside the RAM: 6012 61AB 6FFF ANNN    *)
(* FX55 or FX65, then a jump to itself.  Dumps go to the font, to free     *)
(* memory and to the last 16 bytes; loads read the font, the ROM itself    *)
(* and the last 16 bytes.                                                  *)
(***************************************************************************)
TransferRegs == {0, 1, 15}

TransferCases ==
    {<<85, a>> : a \in {0, 768, 4080}} \cup {<<101, a>> : a \in {0, 512, 4080}}

TransferRom(X, case) ==
    <<"prog", <<OpNN(6, 0, 18), OpNN(6, 1, 171), OpNN(6, 15, 255), OpNNN(10, case[2]),
                OpNN(15, X, case[1]), OpNNN(1, WordAt(5))>>>>

TransferRoms == {TransferRom(X, case) : X \in TransferRegs, case \in TransferCases}

InitTransfer == InitWith(TransferRoms, {})

SpecTransfer == InitTransfer /\ [][Next]_vars

\* C31: with I + X < 4096, FX55 stores V[i] at memory[I + i] for i in 0 .. X and
\* leaves the registers and the rest of memory alone; FX65 loads V[i] from
\* memory[I + i] for i in 0 .. X and leaves the registers above X and all
\* memory alone; after either, I is its old value plus X + 1
C31_DumpLoad ==
    /\ (Executed /\ IsDump(Last) /\ prev.I + Last.X < 4096) =>
           /\ \A a \in 0 .. 4095 :
                  RamRead(chip8.ram, a) =
                      IF a >= prev.I /\ a <= prev.I + Last.X
                      THEN prev.V[a - prev.I] ELSE RamRead(prev.ram, a)
           /\ chip8.V = prev.V
           /\ chip8.I = prev.I + Last.X + 1
    /\ (Executed /\ IsLoad(Last) /\ prev.I + Last.X < 4096) =>
           /\ \A i \in 0 .. 15 :
                  chip8.V[i] = IF i <= Last.X THEN RamRead(prev.ram, prev.I + i)
                               ELSE prev.V[i]
           /\ chip8.ram = prev.ram
           /\ chip8.I = prev.I + Last.X + 1

\* FF65 has loaded the sixteen registers from the first glyphs of the font
C31_Witness ==
    /\ Executed /\ IsLoad(Last) /\ Last.X = 15
    /\ prev.I = 0 /\ prev.V[15] = 255
    /\ chip8.V[0] = 240 /\ chip8.V[1] = 144 /\ chip8.V[15] = 240
    /\ chip8.I = 16

(***************************************************************************)
(* ROMs of store-BCD inside the RAM: 6Xvv ANNN FX33, then a jump to        *)
(* itself, at free memory and at the last three bytes of the RAM.          *)
(***************************************************************************)
BcdValues == {0, 7, 10, 99, 100, 199, 234, 255}
BcdAddrs == {768, 4093}
BcdRegs == {0, 15}

BcdRom(X, v, addr) ==
    <<"prog", <<OpNN(6, X, v), OpNNN(10, addr), OpNN(15, X, 51), OpNNN(1, WordAt(3))>>>>

BcdRoms == {BcdRom(X, v, addr) : X \in BcdRegs, v \in BcdValues, addr \in BcdAddrs}

InitBcd == InitWith(BcdRoms, {})

SpecBcd == InitBcd /\ [][Next]_vars

\* C32: with I + 2 < 4096, FX33 leaves in memory[I], memory[I + 1] and
\* memory[I + 2] three decimal digits whose value, hundreds first, is V[X];
\* the index register, the registers and the rest of memory are unchanged
C32_StoreBcd ==
    (Executed /\ IsBcd(Last) /\ prev.I + 2 < 4096) =>
        LET h == RamRead(chip8.ram, prev.I)
            t == RamRead(chip8.ram, prev.I + 1)
            o == RamRead(chip8.ram, prev.I + 2)
        IN /\ h \in 0 .. 9 /\ t \in 0 .. 9 /\ o \in 0 .. 9
           /\ 100 * h + 10 * t + o = prev.V[Last.X]
           /\ \A a \in 0 .. 4095 :
                  (a < prev.I \/ a > prev.I + 2) =>
                      RamRead(chip8.ram, a) = RamRead(prev.ram, a)
           /\ chip8.I = prev.I
           /\ chip8.V = prev.V

\* 234 has been stored as 2, 3, 4 in the last three bytes of the RAM
C32_Witness ==
    /\ Executed /\ IsBcd(Last)
    /\ prev.I = 4093 /\ prev.V[Last.X] = 234
    /\ RamRead(chip8.ram, 4093) = 2
    /\ RamRead(chip8.ram, 4094) = 3
    /\ RamRead(chip8.ram, 4095) = 4

(***************************************************************************)
(* ROMs whose PC leaves the memory:                                        *)
(*   1FFE             runs off the end: 0000 at 4094, then PC = 4096       *)
(*   1FFF             a jump to the last byte                              *)
(*   60FF BFFF        a jump to 4095 + 255                                 *)
(*   6030 1FFE in a file that fills the memory with 30: the 3030 at 4094   *)
(*                    skips, PC = 4098                                     *)
(***************************************************************************)
OffRoms ==
    {<<"prog", <<OpNNN(1, 4094)>>>>,
     <<"prog", <<OpNNN(1, 4095)>>>>,
     <<"prog", <<OpNN(6, 0, 255), OpNNN(11, 4095)>>>>,
     <<"fill", <<OpNN(6, 0, 48), OpNNN(1, 4094)>>, RAM_SIZE - entry_point, 48>>}

InitOff == InitWith(OffRoms, {"SDLK_x"})

SpecOff == InitOff /\ [][Next]_vars

\* C33: a loop iteration that starts with PC >= 4095 fetches no opcode: it
\* leaves the machine PAUSED (or QUIT when the user quits) with PC, registers,
\* index, stack, memory, display and timers unchanged, also when the user has
\* just resumed it; so PC stays where it is, no instruction runs any more and
\* only a quit ends the run.  The bounds test of the loop lets the fetch
\* through exactly when PC < 4095
C33_PcOutOfMemory ==
    /\ [][(main_at = "loop" /\ chip8.PC >= 4095) =>
             /\ main_at' \in {"loop", "exited"}
             /\ chip8'.state = IF main_at' = "exited" THEN QUIT ELSE PAUSED
             /\ prev' = prev /\ cycles' = cycles
             /\ chip8'.PC = chip8.PC
             /\ chip8'.V = chip8.V
             /\ chip8'.I = chip8.I
             /\ chip8'.stack = chip8.stack
             /\ chip8'.stack_pointer = chip8.stack_pointer
             /\ chip8'.ram = chip8.ram
             /\ chip8'.display = chip8.display
             /\ chip8'.delay_timer = chip8.delay_timer
             /\ chip8'.sound_timer = chip8.sound_timer
             /\ chip8'.instruction = chip8.instruction]_vars
    /\ []((main_at = "loop" /\ chip8.PC >= 4095 /\ chip8.state = PAUSED) =>
             get_input(chip8, PauseSignal).state = RUNNING)
    /\ [](main_at = "loop" => (PcInRange(chip8) <=> chip8.PC < 4095))

\* the machine ran off the end of the memory: the opcode at 4094 was executed,
\* and with PC = 4096 the machine is paused
C33_Witness ==
    /\ main_at = "loop"
    /\ chip8.state = PAUSED
    /\ prev.PC = 4094
    /\ chip8.PC = 4096
    /\ chip8.instruction.opcode = 0

\* C34: a loop iteration that finds the machine PAUSED changes neither timer,
\* and it moves the reference of the timer check to its own end, so that the
\* time spent paused does not count after the resume; a timer check takes at
\* most 1 from each timer
C34_TimersFrozenWhilePaused ==
    /\ [][(main_at = "loop" /\ main_at' = "loop" /\ chip8'.state = PAUSED) =>
             /\ chip8'.delay_timer = chip8.delay_timer
             /\ chip8'.sound_timer = chip8.sound_timer
             /\ PcInRange(chip8) => since_timer_update' = 0]_vars
    /\ [][main_at = "timers" =>
             /\ chip8'.delay_timer \in {chip8.delay_timer, Ticked(chip8.delay_timer)}
             /\ chip8'.sound_timer \in {chip8.sound_timer, Ticked(chip8.sound_timer)}]_vars
    /\ [][(main_at = "timers" /\ since_timer_update = 0
             /\ chip8'.delay_timer # chip8.delay_timer) =>
             since_timer_update' = 0]_vars

\* the machine is paused with both timers running, part of a timer interval
\* had passed when the pause began, and the reference of the check is reset
C34_Witness ==
    /\ main_at = "loop"
    /\ chip8.state = PAUSED
    /\ chip8.delay_timer = 254
    /\ chip8.sound_timer = 254
    /\ since_timer_update = 0

(***************************************************************************)
(* ROMs for the adds that wrap, VF preset to 7:                            *)
(*   6F07 6Xvv 7XNN                 add-immediate                          *)
(*   6F07 ANNN 6Xvv FX1E            add-to-index once                      *)
(*   AFFF 6F07 60C0 70C0 F01E 1208  V0 = C0 + C0 = 80 (wrapped), then      *)
(*                                  I += 80 for ever: I passes FFFF        *)
(***************************************************************************)
WrapRegs == {0, 15}

WrapValues == {0, 200, 255}

WrapBytes == {0, 56, 255}

WrapIndexes == {0, 4095}

AddImmRom(X, v, NN) ==
    <<"prog", <<OpNN(6, 15, 7), OpNN(6, X, v), OpNN(7, X, NN), OpNNN(1, WordAt(3))>>>>

AddIndexRom(X, v, NNN) ==
    <<"prog", <<OpNN(6, 15, 7), OpNNN(10, NNN), OpNN(6, X, v), OpNN(15, X, 30),
                OpNNN(1, WordAt(4))>>>>

IndexLoopRom ==
    <<"prog", <<OpNNN(10, 4095), OpNN(6, 15, 7), OpNN(6, 0, 192), OpNN(7, 0, 192),
                OpNN(15, 0, 30), OpNNN(1, WordAt(4))>>>>

WrapRoms ==
    {AddImmRom(X, v, NN) : X \in WrapRegs, v \in WrapValues, NN \in WrapBytes}
      \cup {AddIndexRom(X, v, NNN) : X \in WrapRegs, v \in WrapValues, NNN \in WrapIndexes}
      \cup {IndexLoopRom}

InitWrap == InitWith(WrapRoms, {})

SpecWrap == InitWrap /\ [][Next]_vars

\* C35: 7XNN leaves (V[X] + NN) mod 256 in V[X] and changes no other register,
\* VF included when X is not F, and not the index; FX1E leaves
\* (I + V[X]) mod 65536 in the index and changes no register, VF included,
\* whether or not the sum passes FFF or FFFF
C35_WrappingAdds ==
    /\ (Executed /\ Last.opcode \div 4096 = 7) =>
          /\ chip8.V[Last.X] = (prev.V[Last.X] + Last.NN) % 256
          /\ \A r \in 0 .. 15 : r # Last.X => chip8.V[r] = prev.V[r]
          /\ chip8.I = prev.I
    /\ (Executed /\ Last.opcode \div 4096 = 15 /\ Last.NN = 30) =>
          /\ chip8.I = (prev.I + prev.V[Last.X]) % 65536
          /\ chip8.V = prev.V

\* FX1E has taken the index past FFFF, with the V0 = 80 that the wrapped 70C0
\* left, and VF is still 7
C35_Witness ==
    /\ Executed
    /\ Last.opcode \div 4096 = 15 /\ Last.NN = 30
    /\ prev.I + prev.V[Last.X] > 65535
    /\ chip8.I < 4095
    /\ chip8.V[0] = 128
    /\ chip8.V[15] = 7

====
